---- MODULE Spec2Model ----
(***************************************************************************)
(* Lesson page (LessonPage), its test panel (TestRunner) and the test      *)
(* sandbox (the script written into the hidden iframe) of the Hebrew AI    *)
(* tutor, as one state machine.                                            *)
(*                                                                         *)
(*   LessonPage  src/src/app/learn/[theme]/[lesson]/page.tsx               *)
(*   TestRunner  src/unnamed/part_011 (host part, lines 34-57, 334-419)    *)
(*   sandbox     src/unnamed/part_011 (iframe script, lines 99-329)        *)
(*   CodeEditor  src/src/components/CodeEditor.tsx (buttons, key handler)  *)
(*   PreviewPanel src/unnamed/part_009 (host part and iframe script)       *)
(*   TTSProvider src/unnamed/part_010                                      *)
(*                                                                         *)
(* The iframe script is modelled by the logic of its functions.  One step  *)
(* of the model is one task of the browser's event loop: a click or key    *)
(* handler with the renders and effects it causes, one timer callback, or  *)
(* the dispatch of one posted message.                                     *)
(*                                                                         *)
(* Spec is the page with its test panel on every lesson; in it the preview *)
(* iframe is rewritten with the code but its own events do not occur.      *)
(* PreviewSpec is the page on the one-milestone lesson with the events of  *)
(* the preview iframe and of other windows as well.  TeardownSpec is the   *)
(* page on the authored lesson with the load of the preview iframe, up to  *)
(* and beyond the unmount of the three components.  TtsSpec is the         *)
(* TTSProvider on its own.  TimerSpec is the page on the authored lesson   *)
(* with the ticks of its session timer.                                    *)
(***************************************************************************)
EXTENDS Integers, Sequences, FiniteSets, TLC

VARIABLES
  \* ---- LessonPage (page.tsx 134-143)
  lesson,                 \* lessonData.milestones, fixed for the session
  currentMilestoneIndex,  \* 0-based index of the current milestone
  code,                   \* the code buffer
  isRunning,              \* the running flag
  runTimers,              \* pending setTimeout(() => setIsRunning(false), 2000)
  xp,                     \* accumulated XP
  lastHintIndex,          \* hint pointer, 0-based, -1 before the first hint
  sessionTime,            \* seconds left of the session
  advanceTimers,          \* pending setTimeout(advance, 1500)
  \* ---- TestRunner (part_011 44-46)
  testResults,            \* the TestResult collection
  currentTestIndex,       \* 0-based, -1 when no test is marked
  \* ---- sandbox and channel
  sandboxCode,            \* learner code written into the current iframe content
  sandboxMarked,          \* learner code has left a mark in the current iframe content
  runs,                   \* every runTests control message posted, and its run
  toHost,                 \* FIFO of messages posted by the sandbox to the page
  hung,                   \* the page's thread is inside non-terminating learner code
  \* ---- PreviewPanel (part_009 31-34) and the content of its iframe
  preview,                \* the current content of the preview iframe
  consoleMessages,        \* the console buffer
  \* ---- TTSProvider (part_010 46-58) and the speech synthesizer
  tts,                    \* isSupported, config.enabled, isSpeaking, speechSynthesis
  \* ---- history
  calls,                  \* calls made across components by the latest step
  observed,               \* per run, the events the controller has handled
  hintCalls,              \* hint requests since the current milestone became current
  awaiting,               \* the latest run-start action still without its evaluation
  actions,                \* learner actions taken so far
  completed,              \* a full pass of the last milestone has been handled
  discarded,              \* a message of a window other than the two iframes was dispatched
  unheard                 \* a message was dispatched after the listeners were removed

pageVars    == <<lesson, currentMilestoneIndex, code, isRunning, runTimers, xp,
                 lastHintIndex, sessionTime, advanceTimers>>
runnerVars  == <<testResults, currentTestIndex>>
sandboxVars == <<sandboxCode, sandboxMarked, runs, toHost, hung>>
previewVars == <<preview, consoleMessages>>
historyVars == <<calls, observed, hintCalls, awaiting, actions, completed, discarded,
                 unheard>>
vars        == <<pageVars, runnerVars, sandboxVars, previewVars, historyVars, tts>>

-----------------------------------------------------------------------------
(* Bounds of the model *)

\* useState(20 * 60): the length of a session in seconds
SessionSeconds == 20 * 60

\* learner actions (edits, clicks, key presses) in one behaviour
MaxActions == 4
\* runTests control messages posted in one behaviour
MaxRuns == 2
\* learner actions and messages of other windows in one behaviour of
\* PreviewSpec
MaxPreviewActions == 2
\* calls into the TTSProvider in one behaviour of TtsSpec
MaxSpeech == 4

-----------------------------------------------------------------------------
(* Lesson content *)

\* mockLessonData.football['first-kick'].milestones
MockLesson == <<
  [id |-> "milestone-1", starterCode |-> "starter1",
   tests |-> <<"test-canvas", "test-background">>,
   hints |-> <<"hint1a", "hint1b">>, xp |-> 20],
  [id |-> "milestone-2", starterCode |-> "starter2",
   tests |-> <<"test-ball">>,
   hints |-> <<"hint2a", "hint2b">>, xp |-> 25],
  [id |-> "milestone-3", starterCode |-> "starter3",
   tests |-> <<"test-movement">>,
   hints |-> <<"hint3a", "hint3b">>, xp |-> 30] >>

\* A lesson the page accepts as well: lessonData is looked up by route and
\* "would come from API/database"; a milestone may carry an empty tests array
\* and any number of hints.
AuthoredLesson == <<
  [id |-> "milestone-a", starterCode |-> "starter1",
   tests |-> <<>>,
   hints |-> <<"hint1a", "hint1b">>, xp |-> 20],
  [id |-> "milestone-b", starterCode |-> "starter2",
   tests |-> <<"test-ball">>,
   hints |-> <<"hint2a">>, xp |-> 25] >>

\* A lesson of one milestone, without hints.
ShortLesson == <<
  [id |-> "milestone-only", starterCode |-> "starter1",
   tests |-> <<"test-ball">>,
   hints |-> <<>>, xp |-> 20] >>

Lessons == {MockLesson, AuthoredLesson, ShortLesson}

\* autoRun={false} on the page
autoRun == FALSE

\* What the learner types into the editor: code that satisfies every
\* assertion script, code that satisfies one of them, code that satisfies
\* every assertion script when it finds the iframe content without its mark
\* (an element that it appends to the document when it executes), code that
\* throws when executed, code that loops for ever when executed.  The
\* starter codes satisfy no assertion script.
Codes == {"good", "half", "once", "throws", "loops"}

AllTests == {"test-canvas", "test-background", "test-ball", "test-movement"}

\* the assertion scripts a learner code satisfies
PassingTests(c) ==
  CASE c = "good" -> AllTests
    [] c = "half" -> {"test-background"}
    [] c = "once" -> IF sandboxMarked THEN {} ELSE AllTests
    [] OTHER      -> {}

\* the learner code leaves its mark in the document when it executes; the
\* document object of the iframe is the same before and after a rewrite, its
\* content is not
Marks(c) == c = "once"

-----------------------------------------------------------------------------
(* LessonPage helpers *)

\* `if (!lessonData || !currentMilestone)`: the page renders "lesson not found"
\* and none of CodeEditor, PreviewPanel, TestRunner
Mounted == currentMilestoneIndex < Len(lesson)

\* Listening with a slip: the cleanup of the effect does not remove the
\* listener
ListenerKept == TRUE

\* `window.addEventListener('message', handleMessage)` of TestRunner and of
\* PreviewPanel, undone by the cleanup
\* `return () => window.removeEventListener('message', handleMessage)` when
\* the component unmounts
Listening == Mounted

currentMilestone == lesson[currentMilestoneIndex + 1]

\* the page's thread can run a task
Responsive == ~hung

\* one more learner action
LearnerActs ==
  /\ Mounted /\ Responsive
  /\ actions < MaxActions
  /\ actions' = actions + 1

-----------------------------------------------------------------------------
(* Records *)

\* a TestResult: id, status, message (absent optional fields read "none")
Result(id, status, message) == [id |-> id, status |-> status, message |-> message]

\* the windows a 'message' event can come from: the iframe of TestRunner, the
\* iframe of PreviewPanel, any other window
TestWindow == "test-iframe"
PreviewWindow == "preview-iframe"
OtherWindow == "other-window"

\* a message posted by the sandbox: sendMessage(type, data); `run` names the
\* runTests invocation that posted it (0 for none), for the history only
\* level and text are event.data.level and event.data.message, which the
\* messages of the test iframe do not have
Msg(type, run, index, payload) ==
  [type |-> type, run |-> run, index |-> index, payload |-> payload,
   source |-> TestWindow, level |-> "undefined", text |-> "undefined"]

\* this step completes no lesson and dispatches no message of another window
Quiet == UNCHANGED <<completed, discarded, unheard>>

\* an outward call: alert(text), onTestComplete(results),
\* onAllTestsComplete(passed, total)
Call(fn, text, results, passed, total) ==
  [fn |-> fn, text |-> text, results |-> results, passed |-> passed, total |-> total]

Alert(text) == Call("alert", text, <<>>, 0, 0)

NoMoreHints == "no more hints"
LessonComplete == "lesson complete"

\* tests.map(test => ({ id, name, status: 'pending' }))
InitialResults(tests) ==
  [k \in 1..Len(tests) |-> Result(tests[k], "pending", "none")]

-----------------------------------------------------------------------------
(* Sandbox: the script of the test-runner iframe *)

\* executeUserCode(): the object of learner functions, null when the learner
\* code throws (the catch posts an 'error' message), no return when it loops
ExecuteUserCode(c) ==
  CASE c = "throws" -> "null"
    [] c = "loops"  -> "diverges"
    [] OTHER        -> "functions"

\* RunSingleTest with a slip: a failed execution of the learner code is not
\* looked at
RunSingleTestIgnoresNull(c, spec) ==
  IF spec \in PassingTests(c) \/ ExecuteUserCode(c) = "null"
    THEN [status |-> "pass", message |-> "passed"]
    ELSE [status |-> "fail", message |-> "assertion failed"]

\* runSingleTest(testSpec): the object the promise resolves with
RunSingleTest(c, spec) ==
  IF ExecuteUserCode(c) = "null"
    THEN [status |-> "fail", message |-> "code error"]
    ELSE IF spec \in PassingTests(c)
      THEN [status |-> "pass", message |-> "passed"]
      ELSE [status |-> "fail", message |-> "assertion failed"]

\* IterationEvents with a slip: testComplete is posted before testStart
IterationEventsCompleteFirst(r, c, i, result) ==
  <<Msg("testComplete", r, i, <<result>>), Msg("testStart", r, i, <<>>)>>

\* the messages of one loop iteration of runTests, in the order of the calls
\* to sendMessage
IterationEvents(r, c, i, result) ==
  <<Msg("testStart", r, i, <<>>)>>
  \o (IF ExecuteUserCode(c) = "null" THEN <<Msg("error", r, -1, <<>>)>> ELSE <<>>)
  \o <<Msg("testComplete", r, i, <<result>>)>>

\* PushResult with a slip: only the passed results are pushed
PushResultPassedOnly(results, spec, res) ==
  IF res.status = "pass" THEN Append(results, Result(spec, res.status, res.message))
  ELSE results

\* results.push({ id: testSpec.id, name: testSpec.name, ...result })
PushResult(results, spec, res) ==
  Append(results, Result(spec, res.status, res.message))

\* One iteration of the for loop of runTests, up to its
\* `await new Promise(resolve => setTimeout(resolve, 100))`; run is the record
\* of the invocation, c the learner code of its iframe content.  runSingleTest
\* calls executeUserCode(), which executes the learner code: execs counts
\* these executions.
Iterate(r, run, c, i) ==
  LET spec == run.specs[i + 1]
      res  == RunSingleTest(c, spec)
  IN IF ExecuteUserCode(c) = "diverges"
       THEN [run  |-> [run EXCEPT !.pc = "hung", !.i = i, !.code = c,
                                  !.execs = @ + 1],
             msgs |-> <<Msg("testStart", r, i, <<>>)>>,
             marks |-> FALSE]
       ELSE [run  |-> [run EXCEPT !.pc = "delay", !.i = i, !.code = c,
                                  !.execs = @ + 1,
                                  !.results = PushResult(run.results, spec, res)],
             msgs |-> IterationEvents(r, c, i, Result(spec, res.status, res.message)),
             marks |-> Marks(c)]

\* Finish with a slip: allTestsComplete is posted twice
FinishTwice(r, run) ==
  [run  |-> [run EXCEPT !.pc = "done"],
   msgs |-> <<Msg("allTestsComplete", r, -1, run.results),
              Msg("allTestsComplete", r, -1, run.results)>>,
   marks |-> FALSE]

\* sendMessage('allTestsComplete', { results })
Finish(r, run) ==
  [run  |-> [run EXCEPT !.pc = "done"],
   msgs |-> <<Msg("allTestsComplete", r, -1, run.results)>>,
   marks |-> FALSE]

\* the 'message' listener of the iframe: runTests(event.data.tests), run to
\* its first await
StartRun(r, run, c) ==
  IF Len(run.specs) = 0 THEN Finish(r, [run EXCEPT !.code = c])
  ELSE Iterate(r, run, c, 0)

\* runTests resumed after the 100 ms delay: the next iteration, or the end
ResumeRun(r, run) ==
  IF run.i + 1 < Len(run.specs) THEN Iterate(r, run, run.code, run.i + 1)
  ELSE Finish(r, run)

\* the oldest control message not yet delivered
NextPosted(r) ==
  /\ runs[r].pc = "posted"
  /\ \A q \in 1..(r - 1) : runs[q].pc # "posted"

SandboxReceive(r) ==
  /\ Quiet /\ UNCHANGED previewVars
  /\ Mounted /\ Responsive
  /\ NextPosted(r)
  /\ LET out == StartRun(r, runs[r], sandboxCode) IN
       /\ runs' = [runs EXCEPT ![r] = out.run]
       /\ toHost' = toHost \o out.msgs
       /\ hung' = (out.run.pc = "hung")
       /\ sandboxMarked' = (sandboxMarked \/ out.marks)
  /\ calls' = <<>>
  /\ UNCHANGED <<pageVars, tts, runnerVars, sandboxCode, observed, hintCalls, awaiting, actions>>

DelayElapsed(r) ==
  /\ Quiet /\ UNCHANGED previewVars
  /\ Mounted /\ Responsive
  /\ runs[r].pc = "delay"
  /\ LET out == ResumeRun(r, runs[r]) IN
       /\ runs' = [runs EXCEPT ![r] = out.run]
       /\ toHost' = toHost \o out.msgs
       /\ hung' = (out.run.pc = "hung")
       /\ sandboxMarked' = (sandboxMarked \/ out.marks)
  /\ calls' = <<>>
  /\ UNCHANGED <<pageVars, tts, runnerVars, sandboxCode, observed, hintCalls, awaiting, actions>>

\* iframeDoc.open() on a content whose run is between two iterations: the
\* continuation of that run may or may not survive the rewrite
DiscardRun(r) ==
  /\ Quiet /\ UNCHANGED previewVars
  /\ Mounted /\ Responsive
  /\ runs[r].pc = "delay" /\ runs[r].ctx = "discarded"
  /\ runs' = [runs EXCEPT ![r].pc = "dead"]
  /\ calls' = <<>>
  /\ UNCHANGED <<pageVars, tts, runnerVars, sandboxCode, sandboxMarked, toHost, hung, observed,
                 hintCalls, awaiting, actions>>

-----------------------------------------------------------------------------
(* TestRunner and LessonPage: effects shared by several handlers *)

ReadyMsg == Msg("ready", 0, -1, <<>>)

\* the runs that were started in a content that has now been rewritten
RebuiltRuns(rs) ==
  [k \in 1..Len(rs) |->
     IF rs[k].pc # "posted" THEN [rs[k] EXCEPT !.ctx = "discarded"] ELSE rs[k]]

\* iframeDoc.write(createIframeContent(code)): the script of the content has
\* set its listeners and started its execution timer, its 'load' event is to
\* come; `posted` is the history of the terminal events of the content
NewPreview(c) ==
  [code |-> c, pc |-> "loading", timer |-> "armed", posted |-> <<>>]

\* setCode(c) with the effect it triggers in TestRunner: `useEffect(...,
\* [userCode])` rewrites the iframe content, whose script posts 'ready'
\* and, in PreviewPanel, `useEffect(..., [code, theme])` empties the console
\* buffer and rewrites the preview iframe
SetCode(c) ==
  /\ code' = c
  /\ IF c # code
       THEN /\ sandboxCode' = c
            /\ sandboxMarked' = FALSE
            /\ runs' = RebuiltRuns(runs)
            /\ toHost' = Append(toHost, ReadyMsg)
            /\ preview' = NewPreview(c)
            /\ consoleMessages' = <<>>
       ELSE UNCHANGED <<sandboxCode, sandboxMarked, runs, toHost, previewVars>>

\* the control message of TestRunner.runTests: { type: 'runTests', tests }
NewRun(tests) ==
  [specs |-> tests, pc |-> "posted", i |-> -1, results |-> <<>>,
   code |-> "", ctx |-> "live", execs |-> 0]

-----------------------------------------------------------------------------
(* CodeEditor and LessonPage handlers *)

\* Editor onChange={setCode}
EditCode(c) ==
  /\ Quiet
  /\ LearnerActs
  /\ c # code
  /\ SetCode(c)
  /\ calls' = <<>>
  /\ UNCHANGED <<lesson, sessionTime, tts, currentMilestoneIndex, isRunning, runTimers, xp,
                 lastHintIndex, advanceTimers, runnerVars, hung, observed,
                 hintCalls, awaiting>>

\* the name of an editor run-start in the history: no run number
EditorStart == MaxRuns + 1

\* handleRun, reached from the Run button (disabled={isRunning}) and from
\* Ctrl/Cmd+Enter (if (!isRunning) onRun())
HandleRun ==
  /\ Quiet /\ UNCHANGED previewVars
  /\ LearnerActs
  /\ ~isRunning
  /\ isRunning' = TRUE
  /\ runTimers' = runTimers + 1
  /\ awaiting' = EditorStart
  /\ calls' = <<>>
  /\ UNCHANGED <<lesson, sessionTime, tts, currentMilestoneIndex, code, xp, lastHintIndex,
                 advanceTimers, runnerVars, sandboxVars, observed, hintCalls>>

\* setTimeout(() => setIsRunning(false), 2000)
RunTimerFires ==
  /\ Quiet /\ UNCHANGED previewVars
  /\ Responsive
  /\ runTimers > 0
  /\ runTimers' = runTimers - 1
  /\ isRunning' = FALSE
  /\ calls' = <<>>
  /\ UNCHANGED <<lesson, sessionTime, tts, currentMilestoneIndex, code, xp, lastHintIndex,
                 advanceTimers, runnerVars, sandboxVars, observed, hintCalls,
                 awaiting, actions>>

\* the editor's Reset button: onClick={onReset}
OnReset == Call("onReset", "", <<>>, 0, 0)

\* ResetCode with a slip: the buffer is left as the learner edited it
ResetCodeKeepsEdits(milestone, c) == c

\* the buffer after handleReset:
\* `if (currentMilestone?.starterCode) setCode(currentMilestone.starterCode)`
ResetCode(milestone, c) ==
  IF milestone.starterCode # "" THEN milestone.starterCode ELSE c

\* handleReset
HandleReset ==
  /\ Quiet
  /\ LearnerActs
  /\ SetCode(ResetCode(currentMilestone, code))
  /\ calls' = <<OnReset>>
  /\ UNCHANGED <<lesson, sessionTime, tts, currentMilestoneIndex, isRunning, runTimers, xp,
                 lastHintIndex, advanceTimers, runnerVars, hung, observed,
                 hintCalls, awaiting>>

\* NextHintIndex with a slip: a hint is skipped
NextHintIndexSkips(last) == last + 2

\* const nextHintIndex = lastHintIndex + 1
NextHintIndex(last) == last + 1

\* handleGetHint, reached from the Hint button (rendered when hasHints) and
\* from F1 (if (hasHints) onGetHint())
HandleGetHint ==
  /\ Quiet /\ UNCHANGED previewVars
  /\ LearnerActs
  /\ Len(currentMilestone.hints) > 0
  /\ LET next == NextHintIndex(lastHintIndex) IN
       IF next < Len(currentMilestone.hints)
         THEN /\ lastHintIndex' = next
              /\ calls' = <<Alert(currentMilestone.hints[next + 1])>>
         ELSE /\ lastHintIndex' = lastHintIndex
              /\ calls' = <<Alert(NoMoreHints)>>
  /\ hintCalls' = hintCalls + 1
  /\ UNCHANGED <<lesson, sessionTime, tts, currentMilestoneIndex, code, isRunning, runTimers, xp,
                 advanceTimers, runnerVars, sandboxVars, observed, awaiting>>

-----------------------------------------------------------------------------
(* TestRunner handlers *)

\* runTests (host), reached from the panel's Run button (disabled={isRunning})
RunTestsHost ==
  /\ Quiet /\ UNCHANGED previewVars
  /\ LearnerActs
  /\ ~isRunning
  /\ Len(runs) < MaxRuns
  /\ runs' = Append(runs, NewRun(currentMilestone.tests))
  /\ observed' = Append(observed, <<>>)
  /\ awaiting' = Len(runs) + 1
  /\ calls' = <<>>
  /\ UNCHANGED <<pageVars, tts, runnerVars, sandboxCode, sandboxMarked, toHost, hung, hintCalls>>

\* resetTests, the panel's reset button
ResetTests ==
  /\ Quiet /\ UNCHANGED previewVars
  /\ LearnerActs
  /\ testResults' = InitialResults(currentMilestone.tests)
  /\ currentTestIndex' = -1
  /\ calls' = <<>>
  /\ UNCHANGED <<pageVars, tts, sandboxVars, observed, hintCalls, awaiting>>

\* case 'testStart': the result at data.index becomes running
OnTestStart(prev, index) ==
  [k \in 1..Len(prev) |->
     IF k = index + 1 THEN [prev[k] EXCEPT !.status = "running"] ELSE prev[k]]

\* case 'testComplete': { ...result, ...data.result } at data.index
OnTestComplete(prev, index, result) ==
  [k \in 1..Len(prev) |-> IF k = index + 1 THEN result ELSE prev[k]]

\* case 'allTestsComplete': setTestResults(results)
OnAllTestsComplete(prev, results) == results

\* PassedCount with a slip: the filter is missing
PassedCountUnfiltered(results) == Len(results)

\* results.filter(r => r.status === 'pass').length
PassedCount(results) ==
  Cardinality({k \in 1..Len(results) : results[k].status = "pass"})

\* AwardsXp with a slip: the comparison is missing
AwardsXpAlways(passed, total) == TRUE

\* handleAllTestsComplete: `if (passed === total)`
AwardsXp(passed, total) == passed = total

\* const earnedXp = currentMilestone?.xp || 0
EarnedXp(milestone) == milestone.xp

\* `if (currentMilestoneIndex < lessonData.milestones.length - 1)`
MilestonesRemain(index, milestones) == index < Len(milestones) - 1

\* AdvanceIndex with a slip: the index goes back from the second milestone
AdvanceIndexToggles(prev) == 1 - prev

\* AdvanceIndex with a slip: the index skips a milestone
AdvanceIndexSkips(prev) == prev + 2

\* setCurrentMilestoneIndex(prev => prev + 1)
AdvanceIndex(prev) == prev + 1

\* the history of a run, extended by a handled event
Observe(obs, msg) ==
  IF msg.run \in 1..Len(obs)
    THEN [obs EXCEPT ![msg.run] = Append(@, [type |-> msg.type, index |-> msg.index])]
    ELSE obs

\* FromSandbox with a slip: the source of the event is not compared
FromSandboxUnchecked(msg, window) == TRUE

\* `if (event.source !== iframeRef.current?.contentWindow) return;`
FromSandbox(msg, window) == msg.source = window

HeadIs(type) ==
  /\ Listening /\ Responsive
  /\ toHost # <<>>
  /\ FromSandbox(Head(toHost), TestWindow)
  /\ Head(toHost).type = type

\* case 'ready': if (autoRun && isRunning) runTests()
HandleReady ==
  /\ HeadIs("ready")
  /\ UNCHANGED <<previewVars, completed, discarded, unheard>>
  /\ toHost' = Tail(toHost)
  /\ IF autoRun /\ isRunning /\ Len(runs) < MaxRuns
       THEN /\ runs' = Append(runs, NewRun(currentMilestone.tests))
            /\ observed' = Append(observed, <<>>)
       ELSE UNCHANGED <<runs, observed>>
  /\ calls' = <<>>
  /\ UNCHANGED <<pageVars, tts, runnerVars, sandboxCode, sandboxMarked, hung, hintCalls, awaiting, actions>>

\* case 'error': console.error only
HandleError ==
  /\ HeadIs("error")
  /\ UNCHANGED <<previewVars, completed, discarded, unheard>>
  /\ toHost' = Tail(toHost)
  /\ calls' = <<>>
  /\ UNCHANGED <<pageVars, tts, runnerVars, sandboxCode, sandboxMarked, runs, hung, observed,
                 hintCalls, awaiting, actions>>

HandleTestStart ==
  /\ HeadIs("testStart")
  /\ UNCHANGED <<previewVars, completed, discarded, unheard>>
  /\ LET msg == Head(toHost) IN
       /\ currentTestIndex' = msg.index
       /\ testResults' = OnTestStart(testResults, msg.index)
       /\ observed' = Observe(observed, msg)
  /\ toHost' = Tail(toHost)
  /\ calls' = <<>>
  /\ UNCHANGED <<pageVars, tts, sandboxCode, sandboxMarked, runs, hung, hintCalls, awaiting, actions>>

HandleTestComplete ==
  /\ HeadIs("testComplete")
  /\ UNCHANGED <<previewVars, completed, discarded, unheard>>
  /\ LET msg == Head(toHost) IN
       /\ testResults' = OnTestComplete(testResults, msg.index, msg.payload[1])
       /\ observed' = Observe(observed, msg)
  /\ toHost' = Tail(toHost)
  /\ calls' = <<>>
  /\ UNCHANGED <<pageVars, tts, currentTestIndex, sandboxCode, sandboxMarked, runs, hung, hintCalls,
                 awaiting, actions>>

\* case 'allTestsComplete', with the page's handleTestComplete (a log) and
\* handleAllTestsComplete that it calls
HandleAllTestsComplete ==
  /\ HeadIs("allTestsComplete")
  /\ UNCHANGED <<previewVars, discarded, unheard>>
  /\ LET msg     == Head(toHost)
         results == msg.payload
         passed  == PassedCount(results)
         total   == Len(results)
         award   == AwardsXp(passed, total)
         more    == MilestonesRemain(currentMilestoneIndex, lesson)
     IN
       /\ currentTestIndex' = -1
       /\ testResults' = OnAllTestsComplete(testResults, results)
       /\ observed' = Observe(observed, msg)
       /\ awaiting' = IF awaiting = msg.run THEN 0 ELSE awaiting
       /\ xp' = IF award THEN xp + EarnedXp(currentMilestone) ELSE xp
       /\ completed' = (completed \/ (award /\ ~more))
       /\ advanceTimers' = IF award /\ more THEN advanceTimers + 1 ELSE advanceTimers
       /\ calls' = <<Call("onTestComplete", "", results, 0, 0),
                     Call("onAllTestsComplete", "", <<>>, passed, total)>>
                   \o (IF award /\ ~more THEN <<Alert(LessonComplete)>> ELSE <<>>)
  /\ toHost' = Tail(toHost)
  /\ UNCHANGED <<lesson, sessionTime, tts, currentMilestoneIndex, code, isRunning, runTimers,
                 lastHintIndex, sandboxCode, sandboxMarked, runs, hung, hintCalls, actions>>

\* HintIndexAfterAdvance with a slip: the hint pointer is not reset
HintIndexKept(prev) == prev

\* setLastHintIndex(-1) of the scheduled advance
HintIndexAfterAdvance(prev) == -1

\* unmount of TestRunner: its iframe, with every run in it, is gone; the
\* messages already posted to the page are still to be dispatched
KilledRuns(rs) ==
  [k \in 1..Len(rs) |->
     IF rs[k].pc \in {"posted", "delay"} THEN [rs[k] EXCEPT !.pc = "dead"] ELSE rs[k]]

\* the scheduled advance: setCurrentMilestoneIndex(prev => prev + 1);
\* setLastHintIndex(-1); then the render and its effects: the starter code of
\* the new milestone (page.tsx 146-150), the pending results of its tests
\* (part_011 49-56), the rewritten iframe (part_011 387-398); or, with no
\* milestone at the new index, the "lesson not found" page
AdvanceTimerFires ==
  /\ Quiet
  /\ Responsive
  /\ advanceTimers > 0
  /\ advanceTimers' = advanceTimers - 1
  /\ currentMilestoneIndex' = AdvanceIndex(currentMilestoneIndex)
  /\ lastHintIndex' = HintIndexAfterAdvance(lastHintIndex)
  /\ hintCalls' = 0
  /\ calls' = <<>>
  /\ IF Mounted /\ AdvanceIndex(currentMilestoneIndex) < Len(lesson)
       THEN /\ SetCode(lesson[AdvanceIndex(currentMilestoneIndex) + 1].starterCode)
            /\ testResults' =
                 InitialResults(lesson[AdvanceIndex(currentMilestoneIndex) + 1].tests)
            /\ UNCHANGED currentTestIndex
       ELSE /\ runs' = KilledRuns(runs)
            /\ UNCHANGED toHost
            /\ testResults' = <<>>
            /\ currentTestIndex' = -1
            /\ preview' = [preview EXCEPT !.pc = "gone", !.timer = "none"]
            /\ consoleMessages' = <<>>
            /\ sandboxMarked' = FALSE
            /\ UNCHANGED <<code, sandboxCode>>
  /\ UNCHANGED <<lesson, sessionTime, tts, isRunning, runTimers, xp, hung, observed, awaiting, actions>>

\* a 'message' event dispatched on the window after both components have
\* removed their listeners: nothing is called
MessageAfterUnmount ==
  /\ ~Listening /\ Responsive
  /\ toHost # <<>>
  /\ toHost' = Tail(toHost)
  /\ unheard' = TRUE
  /\ calls' = <<>>
  /\ UNCHANGED <<pageVars, tts, runnerVars, sandboxCode, sandboxMarked, runs, hung,
                 previewVars, observed, hintCalls, awaiting, actions, completed,
                 discarded>>

-----------------------------------------------------------------------------
(* PreviewPanel: the script of the preview iframe *)

\* a message posted by the preview iframe: { type: 'console', level, message }
\* from its sendMessage, { type: 'success' }, { type: 'error', message }
PreviewMsg(type, level, text) ==
  [Msg(type, 0, -1, <<>>) EXCEPT !.source = PreviewWindow, !.level = level,
                                 !.text = text]

RanText == "code ran"
CodeErrorText == "code error"
UncaughtText == "error in line"
RejectionText == "async error"
TimeoutText == "possible infinite loop"

\* `${userCode}` inside the try block of the 'load' listener
PreviewExecute(c) ==
  CASE c = "throws" -> "throws"
    [] c = "loops"  -> "diverges"
    [] OTHER        -> "completes"

\* LoadEvents with a slip: success is posted after the catch block as well
LoadEventsSuccessAfterCatch(c) ==
  IF PreviewExecute(c) = "throws"
    THEN <<PreviewMsg("console", "error", CodeErrorText),
           PreviewMsg("error", "undefined", CodeErrorText),
           PreviewMsg("success", "undefined", "undefined")>>
    ELSE <<PreviewMsg("console", "info", RanText),
           PreviewMsg("success", "undefined", "undefined")>>

\* the messages posted by the 'load' listener: the try block to its end, or
\* the catch block
LoadEvents(c) ==
  IF PreviewExecute(c) = "throws"
    THEN <<PreviewMsg("console", "error", CodeErrorText),
           PreviewMsg("error", "undefined", CodeErrorText)>>
    ELSE <<PreviewMsg("console", "info", RanText),
           PreviewMsg("success", "undefined", "undefined")>>

\* success and error are the terminal events of a content
IsTerminal(msg) == msg.type \in {"success", "error"}

TerminalTypes(msgs) ==
  LET ts == SelectSeq(msgs, IsTerminal) IN [k \in 1..Len(ts) |-> ts[k].type]

\* the 'load' event of the preview iframe: the learner code is executed
PreviewLoad ==
  /\ Mounted /\ Responsive
  /\ preview.pc = "loading"
  /\ IF PreviewExecute(preview.code) = "diverges"
       THEN /\ preview' = [preview EXCEPT !.pc = "stuck"]
            /\ hung' = TRUE
            /\ UNCHANGED toHost
       ELSE /\ preview' = [preview EXCEPT !.pc = "ran",
                             !.posted = @ \o TerminalTypes(LoadEvents(preview.code))]
            /\ toHost' = toHost \o LoadEvents(preview.code)
            /\ UNCHANGED hung
  /\ calls' = <<>>
  /\ Quiet
  /\ UNCHANGED <<pageVars, tts, runnerVars, sandboxCode, sandboxMarked, runs, consoleMessages,
                 observed, hintCalls, awaiting, actions>>

\* the callback of startExecutionTimer, 10 s after the script has run; the
\* 'load' event comes as soon as the content is parsed
PreviewTimerFires ==
  /\ Mounted /\ Responsive
  /\ preview.timer = "armed"
  /\ preview.pc \in {"ran", "faulted"}
  /\ preview' = [preview EXCEPT !.timer = "fired"]
  /\ toHost' = Append(toHost, PreviewMsg("console", "error", TimeoutText))
  /\ calls' = <<>>
  /\ Quiet
  /\ UNCHANGED <<pageVars, tts, runnerVars, sandboxCode, sandboxMarked, runs, hung, consoleMessages,
                 observed, hintCalls, awaiting, actions>>

\* the kinds of fault after the top-level execution: an error thrown in a
\* callback of the learner code, a promise of the learner code rejected
LaterFaults == {"uncaught", "rejection"}

\* the window 'error' and 'unhandledrejection' listeners of the content
FaultEvents(kind) ==
  IF kind = "uncaught"
    THEN <<PreviewMsg("console", "error", UncaughtText)>>
    ELSE <<PreviewMsg("console", "error", RejectionText)>>

\* learner code that completed its top-level execution faults later
PreviewFault(kind) ==
  /\ Mounted /\ Responsive
  /\ preview.pc = "ran"
  /\ PreviewExecute(preview.code) = "completes"
  /\ preview' = [preview EXCEPT !.pc = "faulted"]
  /\ toHost' = toHost \o FaultEvents(kind)
  /\ calls' = <<>>
  /\ Quiet
  /\ UNCHANGED <<pageVars, tts, runnerVars, sandboxCode, sandboxMarked, runs, hung, consoleMessages,
                 observed, hintCalls, awaiting, actions>>

-----------------------------------------------------------------------------
(* PreviewPanel: handleMessage *)

OnSuccess == Call("onSuccess", "", <<>>, 0, 0)
OnError(text) == Call("onError", text, <<>>, 0, 0)

PreviewHeadIs(type) ==
  /\ Listening /\ Responsive
  /\ toHost # <<>>
  /\ FromSandbox(Head(toHost), PreviewWindow)
  /\ Head(toHost).type = type

\* [...prev.slice(-9), { type: level, message, timestamp }]
PushConsole(prev, msg) ==
  LET kept == IF Len(prev) > 9 THEN SubSeq(prev, Len(prev) - 8, Len(prev)) ELSE prev
  IN Append(kept, [type |-> msg.level, message |-> msg.text])

\* case 'console'
HandlePreviewConsole ==
  /\ PreviewHeadIs("console")
  /\ consoleMessages' = PushConsole(consoleMessages, Head(toHost))
  /\ toHost' = Tail(toHost)
  /\ calls' = <<>>
  /\ Quiet
  /\ UNCHANGED <<pageVars, tts, runnerVars, sandboxCode, sandboxMarked, runs, hung, preview,
                 observed, hintCalls, awaiting, actions>>

\* case 'success': onSuccess()
HandlePreviewSuccess ==
  /\ PreviewHeadIs("success")
  /\ toHost' = Tail(toHost)
  /\ calls' = <<OnSuccess>>
  /\ Quiet
  /\ UNCHANGED <<pageVars, tts, runnerVars, sandboxCode, sandboxMarked, runs, hung, previewVars,
                 observed, hintCalls, awaiting, actions>>

\* case 'error': onError(message)
HandlePreviewError ==
  /\ PreviewHeadIs("error")
  /\ toHost' = Tail(toHost)
  /\ calls' = <<OnError(Head(toHost).text)>>
  /\ Quiet
  /\ UNCHANGED <<pageVars, tts, runnerVars, sandboxCode, sandboxMarked, runs, hung, previewVars,
                 observed, hintCalls, awaiting, actions>>

-----------------------------------------------------------------------------
(* Messages of other windows *)

\* what another window may post to the page: an event that looks like a full
\* pass to TestRunner and carries a message text as the preview's events do
ForgedMessages ==
  { [Msg("allTestsComplete", 0, -1, <<Result("test-ball", "pass", "passed")>>)
       EXCEPT !.source = OtherWindow, !.text = CodeErrorText] }

\* window.postMessage by another window; counted with the learner's actions
OtherWindowPosts(msg) ==
  /\ LearnerActs
  /\ toHost' = Append(toHost, msg)
  /\ calls' = <<>>
  /\ Quiet
  /\ UNCHANGED <<pageVars, tts, runnerVars, sandboxCode, sandboxMarked, runs, hung, previewVars,
                 observed, hintCalls, awaiting>>

\* both listeners return on their comparison of event.source
DiscardMessage ==
  /\ Listening /\ Responsive
  /\ toHost # <<>>
  /\ ~FromSandbox(Head(toHost), TestWindow)
  /\ ~FromSandbox(Head(toHost), PreviewWindow)
  /\ toHost' = Tail(toHost)
  /\ discarded' = TRUE
  /\ calls' = <<>>
  /\ UNCHANGED <<pageVars, tts, runnerVars, sandboxCode, sandboxMarked, runs, hung, previewVars,
                 observed, hintCalls, awaiting, actions, completed, unheard>>

-----------------------------------------------------------------------------
(* TTSProvider *)

\* the provider after its mount effects: isSupported is
\* `'speechSynthesis' in window`, config.enabled comes from defaultConfig;
\* synth is the state of speechSynthesis, cancels and utterances count the
\* calls of speechSynthesis.cancel() and speechSynthesis.speak(), late the
\* error events still to come for cancelled utterances; speakCalls, refused
\* and steps are history
NewTts(supported, enabled) ==
  [isSupported |-> supported, enabled |-> enabled, isSpeaking |-> FALSE,
   synth |-> "idle", cancels |-> 0, utterances |-> 0, late |-> 0,
   speakCalls |-> 0, refused |-> "never", steps |-> 0]

\* the texts handed to speak(): one with characters left after the cleaning,
\* one without
Texts == {"text", "blank"}

\* text.replace(...).replace(...).trim() is not empty
CleanText(text) == text = "text"

\* CanSpeak with a slip: config.enabled is not looked at
CanSpeakIgnoresEnabled(t) == t.isSupported

\* the negation of `if (!isSupported || !config.enabled)`
CanSpeak(t) == t.isSupported /\ t.enabled

\* speechSynthesis.cancel(): the utterance spoken or queued is dropped and
\* its error event will come
Cancel(t) ==
  [t EXCEPT !.cancels = @ + 1, !.synth = "idle",
            !.late = IF t.synth = "idle" THEN @ ELSE @ + 1]

\* one more call into the provider, or one more event of the synthesizer
TtsStep(t) == [t EXCEPT !.steps = @ + 1]

TtsActs == tts.steps < MaxSpeech

TtsOnly ==
  UNCHANGED <<pageVars, runnerVars, sandboxVars, previewVars, historyVars>>

\* speak(text, options)
Speak(text) ==
  /\ TtsActs /\ TtsOnly
  /\ LET called == [TtsStep(tts) EXCEPT !.speakCalls = @ + 1] IN
       IF ~CanSpeak(tts)
         THEN tts' = [called EXCEPT !.refused = tts.synth]
         ELSE IF ~CleanText(text)
           THEN tts' = Cancel(called)
           ELSE tts' = [Cancel(called) EXCEPT !.utterances = @ + 1,
                                              !.synth = "pending"]

\* utterance.onstart
UtteranceStarts ==
  /\ TtsOnly
  /\ tts.synth = "pending"
  /\ tts' = [tts EXCEPT !.synth = "speaking", !.isSpeaking = TRUE]

\* utterance.onend
UtteranceEnds ==
  /\ TtsOnly
  /\ tts.synth = "speaking"
  /\ tts' = [tts EXCEPT !.synth = "idle", !.isSpeaking = FALSE]

\* utterance.onerror, of the utterance spoken or of a cancelled one
UtteranceFails ==
  /\ TtsOnly
  /\ \/ /\ tts.synth \in {"pending", "speaking"}
        /\ tts' = [tts EXCEPT !.synth = "idle", !.isSpeaking = FALSE]
     \/ /\ tts.late > 0
        /\ tts' = [tts EXCEPT !.late = @ - 1, !.isSpeaking = FALSE]

\* checkSpeaking, every 100 ms: setIsSpeaking(speechSynthesis.speaking);
\* the attribute is true while an utterance is spoken or paused, and either
\* way while the utterance is queued
CheckSpeaking ==
  /\ TtsOnly
  /\ tts.isSupported
  /\ \E b \in BOOLEAN :
       /\ tts.synth \in {"speaking", "paused"} => b
       /\ tts.synth = "idle" => ~b
       /\ tts' = [tts EXCEPT !.isSpeaking = b]

\* stop()
Stop ==
  /\ TtsActs /\ TtsOnly
  /\ tts' = IF tts.isSupported
              THEN [Cancel(TtsStep(tts)) EXCEPT !.isSpeaking = FALSE]
              ELSE TtsStep(tts)

\* pause()
Pause ==
  /\ TtsActs /\ TtsOnly
  /\ tts' = IF tts.isSupported /\ tts.synth = "speaking"
              THEN [TtsStep(tts) EXCEPT !.synth = "paused"]
              ELSE TtsStep(tts)

\* resume()
Resume ==
  /\ TtsActs /\ TtsOnly
  /\ tts' = IF tts.isSupported /\ tts.synth = "paused"
              THEN [TtsStep(tts) EXCEPT !.synth = "speaking"]
              ELSE TtsStep(tts)

\* updateConfig({ enabled })
UpdateConfig(enabled) ==
  /\ TtsActs /\ TtsOnly
  /\ enabled # tts.enabled
  /\ tts' = [TtsStep(tts) EXCEPT !.enabled = enabled]

-----------------------------------------------------------------------------
(* The state machine *)

\* the page opened on lesson l, with a of the learner's actions counted as
\* taken
PageInitWith(l, a) ==
  /\ lesson = l
  /\ currentMilestoneIndex = 0
  /\ code = lesson[1].starterCode
  /\ isRunning = FALSE
  /\ runTimers = 0
  /\ xp = 0
  /\ lastHintIndex = -1
  /\ sessionTime = SessionSeconds
  /\ advanceTimers = 0
  /\ testResults = InitialResults(lesson[1].tests)
  /\ currentTestIndex = -1
  /\ sandboxCode = lesson[1].starterCode
  /\ sandboxMarked = FALSE
  /\ runs = <<>>
  /\ toHost = <<>>
  /\ hung = FALSE
  /\ preview = NewPreview(lesson[1].starterCode)
  /\ consoleMessages = <<>>
  /\ completed = FALSE
  /\ discarded = FALSE
  /\ unheard = FALSE
  /\ calls = <<>>
  /\ observed = <<>>
  /\ hintCalls = 0
  /\ awaiting = 0
  /\ actions = a

\* the lesson page mounts no TTSProvider
InitWith(l, a) == PageInitWith(l, a) /\ tts = NewTts(FALSE, TRUE)

Init == \E l \in Lessons : InitWith(l, 0)

Next ==
  \/ \E c \in Codes : EditCode(c)
  \/ HandleRun
  \/ RunTimerFires
  \/ HandleReset
  \/ HandleGetHint
  \/ RunTestsHost
  \/ ResetTests
  \/ \E r \in 1..Len(runs) : SandboxReceive(r)
  \/ \E r \in 1..Len(runs) : DelayElapsed(r)
  \/ \E r \in 1..Len(runs) : DiscardRun(r)
  \/ HandleReady
  \/ HandleError
  \/ HandleTestStart
  \/ HandleTestComplete
  \/ HandleAllTestsComplete
  \/ AdvanceTimerFires
  \/ MessageAfterUnmount

Spec == Init /\ [][Next]_vars

\* The scheduling the browser guarantees: a posted message is delivered, a
\* timer that was set fires, a delivered message is handled.  Nothing obliges
\* the learner to act, nor a rewritten content to drop its run.
FairSpec ==
  /\ Spec
  /\ WF_vars(\E r \in 1..Len(runs) : SandboxReceive(r))
  /\ WF_vars(\E r \in 1..Len(runs) : DelayElapsed(r))
  /\ WF_vars(HandleReady \/ HandleError \/ HandleTestStart \/ HandleTestComplete
             \/ HandleAllTestsComplete \/ MessageAfterUnmount)
  /\ WF_vars(RunTimerFires)
  /\ WF_vars(AdvanceTimerFires)

\* The page opened on the one-milestone lesson, with the preview iframe and
\* other windows taking their steps.  That lesson has no hints and no
\* milestone to advance to.  MaxPreviewActions of the MaxActions learner
\* actions are left to take.
PreviewInit == InitWith(ShortLesson, MaxActions - MaxPreviewActions)

\* the edits of PreviewSpec: "half" and "once" are to the preview what
\* "good" is
PreviewCodes == Codes \ {"half", "once"}

\* The editor's Run, its timer and the panel's reset are left out: they
\* write isRunning, testResults and currentTestIndex only.
PreviewNext ==
  \/ \E c \in PreviewCodes : EditCode(c)
  \/ HandleReset
  \/ RunTestsHost
  \/ \E r \in 1..Len(runs) : SandboxReceive(r)
  \/ \E r \in 1..Len(runs) : DelayElapsed(r)
  \/ \E r \in 1..Len(runs) : DiscardRun(r)
  \/ HandleReady
  \/ HandleError
  \/ HandleTestStart
  \/ HandleTestComplete
  \/ HandleAllTestsComplete
  \/ PreviewLoad
  \/ PreviewTimerFires
  \/ \E kind \in LaterFaults : PreviewFault(kind)
  \/ HandlePreviewConsole
  \/ HandlePreviewSuccess
  \/ HandlePreviewError
  \/ \E msg \in ForgedMessages : OtherWindowPosts(msg)
  \/ DiscardMessage

PreviewSpec == PreviewInit /\ [][PreviewNext]_vars

\* The scheduling of PreviewSpec: as in FairSpec, and the 'load' event and the
\* execution timer of the preview iframe occur.
PreviewFairSpec ==
  /\ PreviewSpec
  /\ WF_vars(\E r \in 1..Len(runs) : SandboxReceive(r))
  /\ WF_vars(\E r \in 1..Len(runs) : DelayElapsed(r))
  /\ WF_vars(HandleReady \/ HandleError \/ HandleTestStart \/ HandleTestComplete
             \/ HandleAllTestsComplete \/ HandlePreviewConsole
             \/ HandlePreviewSuccess \/ HandlePreviewError \/ DiscardMessage)
  /\ WF_vars(PreviewLoad)
  /\ WF_vars(PreviewTimerFires)

-----------------------------------------------------------------------------
(* LessonPage: the session timer *)

\* CountDown with a slip: two seconds are taken off per tick
CountDownByTwo(prev) == IF prev <= 1 THEN 0 ELSE prev - 2

\* the updater of setSessionTime in the interval callback
CountDown(prev) == IF prev <= 1 THEN 0 ELSE prev - 1

\* the callback of setInterval(..., 1000); the tick that returns 0 calls
\* clearInterval(timer), so the interval is set while the time is above 0
Tick ==
  /\ Responsive
  /\ sessionTime > 0
  /\ sessionTime' = CountDown(sessionTime)
  /\ calls' = <<>>
  /\ Quiet
  /\ UNCHANGED <<lesson, currentMilestoneIndex, code, isRunning, runTimers, xp,
                 lastHintIndex, advanceTimers, tts, runnerVars, sandboxVars,
                 previewVars, observed, hintCalls, awaiting, actions>>

\* The session timer with the learner's actions and the test runs on the
\* authored lesson: MaxPreviewActions of the MaxActions learner actions are
\* left to take.  No run of these posts an error event.
TimerInit == InitWith(AuthoredLesson, MaxActions - MaxPreviewActions)

TimerNext ==
  \/ Tick
  \/ \E c \in PreviewCodes : EditCode(c)
  \/ HandleReset
  \/ HandleGetHint
  \/ RunTestsHost
  \/ \E r \in 1..Len(runs) : SandboxReceive(r)
  \/ \E r \in 1..Len(runs) : DelayElapsed(r)
  \/ HandleReady
  \/ HandleTestStart
  \/ HandleTestComplete
  \/ HandleAllTestsComplete
  \/ AdvanceTimerFires

TimerSpec == TimerInit /\ [][TimerNext]_vars

\* The page on the authored lesson with the load of the preview iframe, up
\* to and beyond the render of "lesson not found" that unmounts CodeEditor,
\* PreviewPanel and TestRunner.
TeardownInit == InitWith(AuthoredLesson, 0)

TeardownNext ==
  \/ \E c \in PreviewCodes : EditCode(c)
  \/ RunTestsHost
  \/ \E r \in 1..Len(runs) : SandboxReceive(r)
  \/ \E r \in 1..Len(runs) : DelayElapsed(r)
  \/ \E r \in 1..Len(runs) : DiscardRun(r)
  \/ HandleReady
  \/ HandleError
  \/ HandleTestStart
  \/ HandleTestComplete
  \/ HandleAllTestsComplete
  \/ AdvanceTimerFires
  \/ PreviewLoad
  \/ HandlePreviewConsole
  \/ HandlePreviewSuccess
  \/ HandlePreviewError
  \/ MessageAfterUnmount

TeardownSpec == TeardownInit /\ [][TeardownNext]_vars

\* The TTSProvider on its own, in a browser with or without speechSynthesis
\* and with either default of config.enabled.
TtsInit ==
  /\ PageInitWith(ShortLesson, 0)
  /\ \E supported, enabled \in BOOLEAN : tts = NewTts(supported, enabled)

TtsNext ==
  \/ \E text \in Texts : Speak(text)
  \/ UtteranceStarts
  \/ UtteranceEnds
  \/ UtteranceFails
  \/ CheckSpeaking
  \/ Stop
  \/ Pause
  \/ Resume
  \/ \E enabled \in BOOLEAN : UpdateConfig(enabled)

TtsSpec == TtsInit /\ [][TtsNext]_vars

-----------------------------------------------------------------------------
(* Vocabulary of the properties *)

\* the controller has handled the allTestsComplete of run r
Evaluated(r) ==
  \E k \in 1..Len(observed[r]) : observed[r][k].type = "allTestsComplete"

\* run r can still post events
Alive(r) == runs[r].pc \in {"posted", "delay"}

\* this step is the controller handling the message at the head of the queue
Handles(type) ==
  /\ HeadIs(type)
  /\ toHost' = Tail(toHost)
  /\ currentMilestoneIndex' = currentMilestoneIndex

\* this step is a run-start action: the panel's Run, or the editor's Run
RunStartTaken ==
  \/ Len(runs') > Len(runs)
  \/ ~isRunning /\ isRunning'

\* number of results with status pass
NumPass(results) ==
  Cardinality({k \in DOMAIN results : results[k].status = "pass"})

-----------------------------------------------------------------------------
(* C1 *)

\* C1 as stated: while a run is in flight (started, its allTestsComplete not
\* yet handled), no step is a run-start action: no further runTests control
\* message is posted and the editor's Run does not start either.
C1_NoStartWhileInFlight ==
  [][(\E r \in 1..Len(runs) : Alive(r) /\ ~Evaluated(r)) => ~RunStartTaken]_vars

-----------------------------------------------------------------------------
(* C2 *)

\* C2 as stated: the step that handles allTestsComplete(passed, total) awards
\* the milestone's XP exactly when passed = total and total > 0; otherwise it
\* awards nothing and schedules no advance.
C2_AwardIffFullPass ==
  [][Handles("allTestsComplete") =>
       LET results == Head(toHost).payload
           full    == NumPass(results) = Len(results) /\ Len(results) > 0
       IN IF full THEN xp' = xp + currentMilestone.xp
                  ELSE xp' = xp /\ advanceTimers' = advanceTimers]_vars

-----------------------------------------------------------------------------
(* C3 *)

\* C3: the step that handles a full pass while milestones remain adds
\* exactly the XP of the current milestone and schedules one advance; every
\* change of the milestone index is the scheduled advance taking effect: it
\* raises the index by one and sets the hint pointer to -1.
C3_FullPassAdvances ==
  /\ [][(Handles("allTestsComplete")
         /\ NumPass(Head(toHost).payload) = Len(Head(toHost).payload)
         /\ currentMilestoneIndex < Len(lesson) - 1) =>
          /\ xp' = xp + currentMilestone.xp
          /\ advanceTimers' = advanceTimers + 1]_vars
  /\ [][currentMilestoneIndex' # currentMilestoneIndex =>
          /\ advanceTimers > 0
          /\ advanceTimers' = advanceTimers - 1
          /\ currentMilestoneIndex' = currentMilestoneIndex + 1
          /\ lastHintIndex' = -1]_vars

\* the first milestone of the mock lesson was passed by the only run, the
\* advance has taken effect, and the learner acted three times in all
C3_Witness ==
  /\ lesson = MockLesson
  /\ currentMilestoneIndex = 1
  /\ xp = 20
  /\ lastHintIndex = -1
  /\ advanceTimers = 0
  /\ actions = 3 /\ Len(runs) = 1 /\ Evaluated(1)

-----------------------------------------------------------------------------
(* C4 *)

\* run r has been superseded: a later run was started, or the content it
\* was started in has been rewritten
Superseded(r) == r < Len(runs) \/ runs[r].ctx = "discarded"

\* C4 as stated: a step that handles a testStart, testComplete or
\* allTestsComplete of a superseded run changes no TestResult and reports
\* nothing.
C4_StaleEventsIgnored ==
  [][\A type \in {"testStart", "testComplete", "allTestsComplete"} :
       (Handles(type) /\ Superseded(Head(toHost).run)) =>
          /\ testResults' = testResults
          /\ calls' = <<>>
          /\ xp' = xp
          /\ advanceTimers' = advanceTimers]_vars

-----------------------------------------------------------------------------
(* C5 *)

\* C5 as stated: under fair scheduling no run-start action stays for ever
\* without its evaluation.  awaiting names the latest run-start action: it
\* returns to 0 when the allTestsComplete of that run is handled and moves on
\* when a later run-start supersedes it (isRunning holds during the two
\* seconds that follow an editor run-start).
C5_EveryRunEvaluated ==
  /\ \A r \in 1..MaxRuns : []<>(awaiting # r)
  /\ []<>(awaiting # EditorStart \/ isRunning)

-----------------------------------------------------------------------------
(* C6 *)

TimeoutMessage == "timeout"

\* run r executes learner code that never returns
RunsLoopingCode(r) ==
  /\ r <= Len(runs)
  /\ runs[r].pc # "posted"
  /\ ExecuteUserCode(runs[r].code) = "diverges"

\* run r has ended with every specification failed on the timeout
EndedOnTimeout(r) ==
  /\ r <= Len(runs)
  /\ runs[r].pc = "done"
  /\ Len(runs[r].results) = Len(runs[r].specs)
  /\ \A k \in 1..Len(runs[r].results) :
       /\ runs[r].results[k].status = "fail"
       /\ runs[r].results[k].message = TimeoutMessage

\* C6 as stated: a run whose learner code loops for ever still ends, with
\* every specification reported fail on the timeout, and the page stays able
\* to take further steps.
C6_LoopingRunEnds ==
  \A r \in 1..MaxRuns :
    [](RunsLoopingCode(r) => <>(EndedOnTimeout(r) /\ Responsive))

-----------------------------------------------------------------------------
(* C7 *)

\* the posted message is an allTestsComplete with one pass-or-fail result per
\* specification of its run, in the order of the specifications
TotalResults(msg) ==
  LET specs == runs[msg.run].specs IN
    /\ Len(msg.payload) = Len(specs)
    /\ \A k \in 1..Len(msg.payload) :
         /\ msg.payload[k].id = specs[k]
         /\ msg.payload[k].status \in {"pass", "fail"}

\* C7: every allTestsComplete message the sandbox has posted carries exactly
\* one result per TestSpecification of its run, in their order, each pass or
\* fail.
C7_AllTestsCompleteTotal ==
  \A k \in 1..Len(toHost) :
    toHost[k].type = "allTestsComplete" => TotalResults(toHost[k])

\* an allTestsComplete over two specifications, one passed and one failed,
\* is in the queue
C7_Witness ==
  \E k \in 1..Len(toHost) :
    /\ toHost[k].type = "allTestsComplete"
    /\ Len(toHost[k].payload) = 2
    /\ toHost[k].payload[1].status = "fail"
    /\ toHost[k].payload[2].status = "pass"

-----------------------------------------------------------------------------
(* C8 *)

\* the k-th event of a run over n specifications: testStart(0),
\* testComplete(0), ..., testStart(n-1), testComplete(n-1), allTestsComplete
RunEvent(n, k) ==
  IF k = 2 * n + 1 THEN [type |-> "allTestsComplete", index |-> -1]
  ELSE IF k % 2 = 1 THEN [type |-> "testStart", index |-> (k - 1) \div 2]
  ELSE [type |-> "testComplete", index |-> (k \div 2) - 1]

\* C8: for every run, the events of that run the controller has handled so
\* far are an initial part of testStart(0), testComplete(0), testStart(1),
\* ..., testComplete(n-1), allTestsComplete.
C8_EventsInOrder ==
  \A r \in 1..Len(runs) :
    /\ Len(observed[r]) <= 2 * Len(runs[r].specs) + 1
    /\ \A k \in 1..Len(observed[r]) :
         observed[r][k] = RunEvent(Len(runs[r].specs), k)

\* two runs over two specifications, both handled to the end
C8_Witness ==
  /\ Len(runs) = 2
  /\ Len(runs[1].specs) = 2
  /\ Len(observed[1]) = 5 /\ Len(observed[2]) = 5

-----------------------------------------------------------------------------
(* C9 *)

\* C9: the step that handles allTestsComplete(results) makes the TestResult
\* collection equal to results, calls onTestComplete(results) and then
\* onAllTestsComplete(number of passed results, number of results).
C9_AllTestsCompleteAuthoritative ==
  [][Handles("allTestsComplete") =>
       LET results == Head(toHost).payload IN
         /\ testResults' = results
         /\ Len(calls') >= 2
         /\ calls'[1] = Call("onTestComplete", "", results, 0, 0)
         /\ calls'[2] = Call("onAllTestsComplete", "", <<>>,
                             NumPass(results), Len(results))]_vars

\* the mixed result (1 of 2) of the only run has just been handled; the
\* learner acted three times in all, once besides the edit and the Run
C9_Witness ==
  /\ Len(calls) = 2
  /\ calls[2].fn = "onAllTestsComplete"
  /\ calls[2].passed = 1 /\ calls[2].total = 2
  /\ testResults = calls[1].results
  /\ actions = 3 /\ Len(runs) = 1

-----------------------------------------------------------------------------
(* C10 *)

\* C10: the k-th hint request since the milestone became current shows
\* hints[k-1] (and moves the pointer to k-1) when k is at most the number of
\* hints, and otherwise shows the 'no more hints' text and leaves the pointer.
C10_HintsInOrder ==
  [][hintCalls' = hintCalls + 1 =>
       LET k == hintCalls + 1
           hints == currentMilestone.hints
       IN IF k <= Len(hints)
            THEN /\ calls' = <<Alert(hints[k])>>
                 /\ lastHintIndex' = k - 1
            ELSE /\ calls' = <<Alert(NoMoreHints)>>
                 /\ lastHintIndex' = lastHintIndex]_vars

\* the second request on the one-hint milestone reached by an advance: the
\* 'no more hints' text, the pointer left on the only hint
C10_Witness ==
  /\ lesson = AuthoredLesson
  /\ currentMilestoneIndex = 1
  /\ hintCalls = 2
  /\ lastHintIndex = 0
  /\ calls = <<Alert(NoMoreHints)>>

-----------------------------------------------------------------------------
(* C11 *)

-----------------------------------------------------------------------------
(* C12 *)

\* C12: the step that handles an allTestsComplete whose passed count is less
\* than its total leaves the accumulated XP, the milestone index, the hint
\* pointer and the code buffer unchanged, and schedules no advance.
C12_PartialPassChangesNothing ==
  [][(Handles("allTestsComplete")
      /\ NumPass(Head(toHost).payload) < Len(Head(toHost).payload)) =>
       /\ xp' = xp
       /\ currentMilestoneIndex' = currentMilestoneIndex
       /\ lastHintIndex' = lastHintIndex
       /\ code' = code
       /\ advanceTimers' = advanceTimers]_vars

\* a zero pass (0 of 2) of code that throws has just been handled, after a
\* hint was shown
C12_Witness ==
  /\ Len(calls) = 2
  /\ calls[2].fn = "onAllTestsComplete"
  /\ calls[2].passed = 0 /\ calls[2].total = 2
  /\ code = "throws"
  /\ lastHintIndex = 0
  /\ xp = 0 /\ advanceTimers = 0

-----------------------------------------------------------------------------
(* C13 *)

\* a run is in flight: started, its allTestsComplete not yet handled
RunInFlight == \E r \in 1..Len(runs) : Alive(r) /\ ~Evaluated(r)

\* C13 as stated: while a run is in flight, no hint step changes the hint
\* pointer and no reset step changes the code buffer.
C13_NoHintOrResetWhileRunning ==
  [][RunInFlight =>
       /\ (hintCalls' = hintCalls + 1 => lastHintIndex' = lastHintIndex)
       /\ (calls' = <<OnReset>> => code' = code)]_vars

-----------------------------------------------------------------------------
(* C14 *)

\* C14 as stated: once a full pass of the last milestone has been handled,
\* no step that handles an allTestsComplete changes the accumulated XP or the
\* milestone index.
C14_LessonCompleteIsTerminal ==
  [][(completed /\ Handles("allTestsComplete")) =>
       /\ xp' = xp
       /\ currentMilestoneIndex' = currentMilestoneIndex]_vars

-----------------------------------------------------------------------------
(* C15 *)

\* C15: no step lowers the milestone index.
C15_IndexNeverDecreases ==
  [][currentMilestoneIndex' >= currentMilestoneIndex]_vars

\* the mock lesson has advanced twice, to its last milestone, through two
\* separate runs, and XP of both milestones is held
C15_Witness ==
  /\ lesson = MockLesson
  /\ currentMilestoneIndex = 2
  /\ xp = 45
  /\ Len(runs) = 2 /\ Len(runs[2].specs) = 1

-----------------------------------------------------------------------------
(* C20 *)

\* the status and message reported for a specification when the learner
\* code throws
CodeErrorResult == [status |-> "fail", message |-> "code error"]

\* run r was started on learner code that throws when executed
RunsThrowingCode(r) ==
  runs[r].pc # "posted" /\ ExecuteUserCode(runs[r].code) = "null"

-----------------------------------------------------------------------------
(* C16 *)

\* this step dispatches the message at the head of the queue to the two
\* 'message' listeners of the page
Dispatches ==
  /\ toHost # <<>>
  /\ toHost' = Tail(toHost)
  /\ currentMilestoneIndex' = currentMilestoneIndex

\* the step calls one of the named callbacks
CallsAny(fns) == \E k \in 1..Len(calls') : calls'[k].fn \in fns

\* C16: the dispatch of a message whose source is not the iframe of
\* TestRunner changes no TestResult and no run state and calls neither
\* onTestComplete nor onAllTestsComplete; the dispatch of a message whose
\* source is not the iframe of PreviewPanel changes neither the console
\* buffer nor the preview and calls neither onSuccess nor onError.
C16_ForeignMessagesDiscarded ==
  [][Dispatches =>
       /\ (Head(toHost).source # TestWindow =>
              /\ UNCHANGED <<testResults, currentTestIndex, runs, xp, advanceTimers>>
              /\ ~CallsAny({"onTestComplete", "onAllTestsComplete"}))
       /\ (Head(toHost).source # PreviewWindow =>
              /\ UNCHANGED <<consoleMessages, preview>>
              /\ ~CallsAny({"onSuccess", "onError"}))]_vars

\* a forged full pass of another window has been dispatched, and so have
\* console events of the preview and the events of a whole test run: the XP
\* is still 0
C16_Witness ==
  /\ discarded
  /\ consoleMessages # <<>>
  /\ Len(runs) = 1 /\ Evaluated(1)
  /\ xp = 0

-----------------------------------------------------------------------------
(* C17 *)

\* the terminal events a content has posted once its top-level execution of
\* the learner code has ended
OneTerminal(c) ==
  IF PreviewExecute(c) = "throws" THEN <<"error">> ELSE <<"success">>

-----------------------------------------------------------------------------
(* C18 *)

\* this step is a fault in the preview iframe: the top-level learner code
\* throws, or an error or a rejection is raised later
FaultOccurs ==
  \/ preview.pc = "loading" /\ preview'.pc = "ran"
       /\ PreviewExecute(preview.code) = "throws"
  \/ preview.pc = "ran" /\ preview'.pc = "faulted"

\* C18 as stated: every fault in the preview iframe posts an event of type
\* error to the page.
C18_FaultsPostError ==
  [][FaultOccurs =>
       \E k \in (Len(toHost) + 1)..Len(toHost') :
         toHost'[k].type = "error" /\ toHost'[k].source = PreviewWindow]_vars

-----------------------------------------------------------------------------
(* C19 *)

\* a Timeout event of type error of the preview iframe is in the queue
TimeoutErrorPosted ==
  \E k \in 1..Len(toHost) :
    /\ toHost[k].source = PreviewWindow
    /\ toHost[k].type = "error"
    /\ toHost[k].text = TimeoutText

\* C19 as stated: a content of the preview iframe whose learner code never
\* ends, and which therefore posts neither success nor error, is followed by
\* a Timeout event of type error and is discarded.
C19_TimeoutPosted ==
  [](preview.pc = "stuck" => <>(TimeoutErrorPosted /\ preview.pc # "stuck"))

-----------------------------------------------------------------------------
(* C22 *)

\* the messages this step appends to the queue of the page
Emitted ==
  IF Len(toHost') > Len(toHost)
    THEN SubSeq(toHost', Len(toHost) + 1, Len(toHost'))
    ELSE <<>>

\* the messages this step appends that run r posted
EmittedBy(r) == SelectSeq(Emitted, LAMBDA m : m.run = r)

\* run r is over an empty list of TestSpecifications
EmptyRun(r) == runs[r].specs = <<>>

\* C22 as stated: a run over an empty TestSpecification list emits no
\* testStart and no testComplete event and emits exactly one allTestsComplete
\* event whose results array is empty: the step that delivers its control
\* message posts that one event and ends the run, and no other step posts an
\* event of that run (a run whose control message dies with the iframe posts
\* none).
C22_EmptyRunEmitsOneEvent ==
  [][\A r \in 1..Len(runs) :
       EmptyRun(r) =>
         IF runs[r].pc = "posted" /\ runs'[r].pc \notin {"posted", "dead"}
           THEN /\ EmittedBy(r) = <<Msg("allTestsComplete", r, -1, <<>>)>>
                /\ runs'[r].pc = "done"
           ELSE /\ EmittedBy(r) = <<>>
                /\ runs'[r].pc \in {runs[r].pc, "dead"}]_vars

\* a run over an empty list has ended and its one event is in the queue
C22_Witness ==
  \E r \in 1..Len(runs) :
    /\ EmptyRun(r) /\ runs[r].pc = "done"
    /\ \E k \in 1..Len(toHost) : toHost[k] = Msg("allTestsComplete", r, -1, <<>>)

-----------------------------------------------------------------------------
(* C26 *)

\* run r has executed its last iteration and posted allTestsComplete
RunEnded(r) == runs[r].pc = "done"

\* C26 as stated: during one run the learner code is executed exactly once,
\* whatever the number of TestSpecifications, also when that execution
\* failed: no run executes the learner code a second time, and a run that
\* has ended over a non-empty list has executed it once.
C26_LearnerCodeExecutedOnce ==
  \A r \in 1..Len(runs) :
    /\ runs[r].execs <= 1
    /\ RunEnded(r) /\ ~EmptyRun(r) => runs[r].execs = 1

-----------------------------------------------------------------------------
(* C25 *)

\* the control message of run r was delivered: runTests(tests) of the iframe
\* content of that moment has executed for it
Served(r) ==
  \/ runs[r].pc \in {"delay", "hung", "done"}
  \/ runs[r].pc = "dead" /\ runs[r].i >= 0

\* this step delivers the control message of run r
Serves(r) == runs[r].pc = "posted" /\ runs'[r].pc \in {"delay", "hung", "done"}

\* run r executed in the iframe content that is still the current one
InCurrentContext(r) == Served(r) /\ runs[r].ctx = "live"

\* C25 as stated: each run executes in a sandbox context created for that run
\* alone: the start of a run finds the context of every earlier run
\* discarded, and no context serves two runs.
C25_OneContextPerRun ==
  [][\A r \in 1..Len(runs) :
       /\ Serves(r) => \A q \in 1..Len(runs) : ~InCurrentContext(q)
       /\ \A q \in 1..(r - 1) : ~(InCurrentContext(q) /\ InCurrentContext(r))]_vars

-----------------------------------------------------------------------------
(* C21 *)

\* the pass/fail verdicts of run r, in the order of its TestSpecifications
Verdicts(r) == [k \in 1..Len(runs[r].results) |-> runs[r].results[k].status]

\* runs r and q have ended and were of the same learner code against the same
\* ordered TestSpecifications
SameRun(r, q) ==
  /\ RunEnded(r) /\ RunEnded(q)
  /\ runs[r].code = runs[q].code
  /\ runs[r].specs = runs[q].specs

\* C21 as stated: two runs of the same learner code against the same ordered
\* TestSpecifications yield the same sequence of pass/fail verdicts, whatever
\* runs took place earlier in the session.
C21_SameInputSameVerdicts ==
  \A r, q \in 1..Len(runs) : SameRun(r, q) => Verdicts(r) = Verdicts(q)

-----------------------------------------------------------------------------
(* C27 *)

\* a RunSession is in flight: a run-start action was taken and the
\* allTestsComplete that answers it has not been handled
SessionInFlight == awaiting # 0 \/ RunInFlight

\* C27 as stated: the running flag is true from a run-start action until
\* that run's allTestsComplete has been handled, and false in every other
\* state.
C27_RunningIffInFlight == isRunning <=> SessionInFlight

-----------------------------------------------------------------------------
(* C28 *)

\* the ids of the TestResult collection, in its order
ResultIds == [k \in 1..Len(testResults) |-> testResults[k].id]

\* C28 as stated: in every reachable state the TestResult collection has
\* exactly one entry per TestSpecification of the current milestone, with the
\* same ids in the authored order.
C28_OneResultPerSpec == Mounted => ResultIds = currentMilestone.tests

-----------------------------------------------------------------------------
(* C29 *)

\* the status of a TestResult moves from a to b along
\* pending -> running -> (pass | fail), or stays pending, running or decided
Forward(a, b) ==
  \/ a = "pending"
  \/ a = "running" /\ b \in {"running", "pass", "fail"}
  \/ a \in {"pass", "fail"} /\ b \in {"pass", "fail"}

\* C29 as stated: within a RunSession the status of each TestResult only
\* moves forward along pending -> running -> (pass | fail): while a run is in
\* flight on the current milestone, no step takes a running result back to
\* pending or a pass or fail result to pending or running.
C29_StatusMovesForward ==
  [][RunInFlight /\ currentMilestoneIndex' = currentMilestoneIndex =>
       \A k \in 1..Len(testResults) :
         k <= Len(testResults') =>
           Forward(testResults[k].status, testResults'[k].status)]_vars

-----------------------------------------------------------------------------
(* C30 *)

\* this step starts a run: a 'runTests' control message is posted
RunStarts == Len(runs') > Len(runs)

\* every TestResult of the collection rs is pending
AllPending(rs) == \A k \in 1..Len(rs) : rs[k].status = "pending"

\* C30 as stated: when a run starts, every TestResult of the milestone is
\* pending: no pass or fail verdict of an earlier run is still held or
\* counted in the passed/total count.  The starts looked at are those made
\* when the allTestsComplete of every earlier run has been handled.
C30_RunStartsPending ==
  [][RunStarts /\ (\A r \in 1..Len(runs) : Evaluated(r)) =>
       AllPending(testResults') /\ PassedCount(testResults') = 0]_vars

-----------------------------------------------------------------------------
(* C23 *)

\* the callbacks of TestRunner and of PreviewPanel
Callbacks == {"onTestComplete", "onAllTestsComplete", "onSuccess", "onError"}

\* C23 as stated: after the teardown of the components their message
\* listeners are removed: no step taken once they are unmounted, the arrival
\* of a message included, calls onTestComplete, onAllTestsComplete, onSuccess
\* or onError or changes any TestResult.
C23_NoCallbackAfterUnmount ==
  [][~Mounted => ~CallsAny(Callbacks) /\ testResults' = testResults]_vars

\* a terminal event of the preview iframe was dispatched after the unmount
C23_Witness ==
  /\ ~Mounted /\ unheard
  /\ calls = <<>>
  /\ \E k \in 1..Len(preview.posted) : preview.posted[k] \in {"success", "error"}
  /\ ~(\E k \in 1..Len(toHost) : toHost[k].type \in {"success", "error"})

-----------------------------------------------------------------------------
(* C24 *)

\* this step is a call of speak()
SpeakCalled == tts'.speakCalls = tts.speakCalls + 1

\* C24 as stated: while TTS is disabled (config.enabled is false) or speech
\* synthesis is unsupported, speak() starts no utterance: it neither cancels
\* running speech nor hands an utterance to the synthesizer, and it leaves
\* isSpeaking unchanged.
C24_NoSpeechWhenDisabled ==
  [][SpeakCalled /\ (~tts.enabled \/ ~tts.isSupported) =>
       /\ tts'.cancels = tts.cancels
       /\ tts'.utterances = tts.utterances
       /\ tts'.synth = tts.synth
       /\ tts'.isSpeaking = tts.isSpeaking]_vars

\* speak() was called while TTS was disabled and the one utterance handed to
\* the synthesizer was being spoken, and that utterance is still being spoken
C24_Witness ==
  /\ tts.refused = "speaking" /\ tts.synth = "speaking"
  /\ ~tts.enabled /\ tts.isSupported
  /\ tts.speakCalls = 2 /\ tts.utterances = 1 /\ tts.cancels = 1
  /\ tts.isSpeaking

-----------------------------------------------------------------------------
(* C31 *)

-----------------------------------------------------------------------------
(* C32 *)

RECURSIVE SumXp(_)
\* the sum of the xp rewards of the first n milestones of the lesson
SumXp(n) == IF n = 0 THEN 0 ELSE lesson[n].xp + SumXp(n - 1)

\* the number of milestones passed is the index of the current milestone,
\* or one more when a full pass of the current milestone has been handled
PassedSoFar ==
  {n \in 0..Len(lesson) :
     n \in {currentMilestoneIndex, currentMilestoneIndex + 1}}

\* C32 as stated: the accumulated XP always equals the sum of the xp rewards
\* of the milestones passed so far; the XP of one milestone is awarded at
\* most once.
C32_XpIsSumOfPassed ==
  Mounted => \E n \in PassedSoFar : xp = SumXp(n)

-----------------------------------------------------------------------------
(* C33 *)

\* C33 as stated: in every reachable state 0 <= milestone index <=
\* milestones.length - 1, so the current milestone is always defined, also
\* when several full-pass events are handled before a scheduled advance
\* takes effect.
C33_IndexInRange ==
  /\ 0 <= currentMilestoneIndex
  /\ currentMilestoneIndex <= Len(lesson) - 1

-----------------------------------------------------------------------------
(* C34 *)

\* the current content of the preview iframe has posted success or error
TerminalPosted == preview.posted # <<>>

\* this step posts the runaway-execution message of the preview iframe
TimeoutEmitted ==
  \E k \in 1..Len(Emitted) :
    Emitted[k].source = PreviewWindow /\ Emitted[k].text = TimeoutText

\* C34 as stated: a content of the preview iframe that has already emitted
\* success or error never afterwards emits the runaway-execution message:
\* the completion of the top-level execution cancels the timeout guard.
C34_TerminalCancelsTimeout == [][TerminalPosted => ~TimeoutEmitted]_vars

-----------------------------------------------------------------------------
(* C35 *)

\* the 0-based indexes of the results with status running
RunningResults ==
  {k \in 0..(Len(testResults) - 1) : testResults[k + 1].status = "running"}

\* C35 as stated: at any moment at most one TestResult has status running,
\* and currentTestIndex is either -1 or the index of that running result.
C35_OneRunningResult ==
  /\ Cardinality(RunningResults) <= 1
  /\ currentTestIndex = -1 \/ currentTestIndex \in RunningResults

-----------------------------------------------------------------------------
(* C36 *)

\* C36 as stated: after the editor's Run action has put the controller into
\* Running, the controller eventually returns to not-Running, whether or not
\* a success, error or allTestsComplete event arrives: Running is never
\* permanent.
C36_RunningEnds == [](isRunning => <>(~isRunning))

-----------------------------------------------------------------------------
(* C37 *)

\* this step dispatches the message at the head of the queue, posted by the
\* given window
DispatchesFrom(window) ==
  /\ toHost # <<>>
  /\ toHost' = Tail(toHost)
  /\ Head(toHost).source = window

\* C37 as stated: the preview channel and the test-runner channel are
\* isolated from each other: no event emitted by the test-runner sandbox
\* invokes the preview's onSuccess or onError or enters its console buffer,
\* and no event emitted by the preview sandbox changes a TestResult or
\* triggers onTestComplete or onAllTestsComplete.
C37_ChannelsIsolated ==
  [][/\ DispatchesFrom(TestWindow) =>
          /\ ~CallsAny({"onSuccess", "onError"})
          /\ consoleMessages' = consoleMessages
     /\ DispatchesFrom(PreviewWindow) =>
          /\ ~CallsAny({"onTestComplete", "onAllTestsComplete"})
          /\ testResults' = testResults
          /\ currentTestIndex' = currentTestIndex]_vars

\* the events of a run of throwing code, its error event among them, have
\* been dispatched, and so has a console event of the preview iframe
C37_Witness ==
  /\ \E r \in 1..Len(runs) :
       /\ ExecuteUserCode(runs[r].code) = "null"
       /\ \E k \in 1..Len(observed[r]) : observed[r][k].type = "testComplete"
  /\ consoleMessages # <<>>

-----------------------------------------------------------------------------
(* C38 *)

\* the entry of the console buffer made of a console event
ConsoleEntry(msg) == [type |-> msg.level, message |-> msg.text]

ConsoleEntries(msgs) ==
  {ConsoleEntry(msgs[k]) : k \in {j \in 1..Len(msgs) : msgs[j].type = "console"}}

\* the entries of the console events that the content now in the preview
\* iframe has posted
PostedByContent ==
  (IF preview.pc \in {"ran", "faulted"}
     THEN ConsoleEntries(LoadEvents(preview.code)) ELSE {})
  \cup (IF preview.pc = "faulted"
          THEN UNION {ConsoleEntries(FaultEvents(kind)) : kind \in LaterFaults}
          ELSE {})
  \cup (IF preview.timer = "fired"
          THEN {ConsoleEntry(PreviewMsg("console", "error", TimeoutText))}
          ELSE {})

\* C38 as stated: the console buffer of the preview never holds more than 10
\* messages, it consists of console events received from the content now in
\* the preview iframe, each once, and it is empty after a change of the
\* learner code until that content posts.
C38_ConsoleOfCurrentContent ==
  Mounted =>
    /\ Len(consoleMessages) <= 10
    /\ \A k \in 1..Len(consoleMessages) : consoleMessages[k] \in PostedByContent
    /\ \A j, k \in 1..Len(consoleMessages) :
         consoleMessages[j] = consoleMessages[k] => j = k

-----------------------------------------------------------------------------
(* C39 *)

\* this step is a tick of the session countdown
Ticks == sessionTime' # sessionTime

\* C39 as stated: the session countdown starts at 1200 seconds, decreases
\* by exactly one per tick, never goes below 0 and stays at 0 once it has
\* reached 0; a tick, the one that reaches 0 included, leaves the XP, the
\* milestone index, the hint pointer and the code buffer as they are.
C39_SessionCountdown ==
  /\ sessionTime = 1200
  /\ [](sessionTime >= 0)
  /\ [][Ticks => sessionTime' = sessionTime - 1]_vars
  /\ [][sessionTime = 0 => sessionTime' = 0]_vars
  /\ [][Ticks => UNCHANGED <<xp, currentMilestoneIndex, lastHintIndex, code>>]_vars

\* the countdown has reached 0 in a session in which the first milestone
\* was passed, its XP awarded and the advance taken
C39_Witness ==
  /\ sessionTime = 0
  /\ xp = lesson[1].xp /\ xp > 0
  /\ currentMilestoneIndex = 1
  /\ code = lesson[2].starterCode

====
